---------------------------- MODULE Spec2Model ----------------------------
(***************************************************************************)
(* Model of zlp_scheduler.py: the spreadsheet loader and validator, the    *)
(* mandatory/optional partition, the greedy section selector, and the      *)
(* free-window / minimum-conflict report.                                  *)
(*                                                                         *)
(* Python strings are sequences of one-character strings, tuples are       *)
(* tuples, and a dict is the sequence of its <<key, value>> items in       *)
(* insertion order (the order Python iterates it in).                      *)
(***************************************************************************)
EXTENDS Integers, Sequences, FiniteSets

VARIABLES
    pc,           \* position of main()
    file,         \* the data-frame rows of the spreadsheet (raw cells)
    rows,         \* rows_from_file's local list `rows`
    ri,           \* index of the next row to convert / to add
    errors,       \* the "Error: ..." lines add_section printed, with the row index
    sections,     \* dict code -> list of (days, st, dur, code)
    mandatory,    \* dict code -> section
    options,      \* dict code -> list of sections
    busy,         \* Busy Grid: day -> list of (start, end)
    busy_raw,     \* Labeled Busy Grid: day -> list of (start, end, code)
    chosen,       \* dict code -> section
    best_course, best_sec, best_score, tied,   \* locals of the selection loop
    pos,          \* position of the nested for-loops over options / candidates
    free_any, free_by_day,
    report        \* what the report prints, per weekday

vars == <<pc, file, rows, ri, errors, sections, mandatory, options, busy,
          busy_raw, chosen, best_course, best_sec, best_score, tied, pos,
          free_any, free_by_day, report>>

(***************************************************************************)
(* Bounds of the model.                                                    *)
(***************************************************************************)
MaxRows == 4        \* validated input records per run of the scheduler
MaxFileRows == 3    \* rows of a spreadsheet in the loader

(***************************************************************************)
(* Constants of the program.                                               *)
(***************************************************************************)
DAY_LETTERS == <<"M", "T", "W", "R", "F">>
DAY_NAMES == [d \in {"M", "T", "W", "R", "F"} |->
                 CASE d = "M" -> "Monday" [] d = "T" -> "Tuesday"
                   [] d = "W" -> "Wednesday" [] d = "R" -> "Thursday"
                   [] d = "F" -> "Friday"]
GRID_START == 8 * 60
GRID_END == 16 * 60 + 10
BLOCK_LEN == 100
STEP_MIN == 5

Days == {DAY_LETTERS[i] : i \in DOMAIN DAY_LETTERS}
None == <<>>        \* Python's None
Inf == -1           \* float('inf'): compared only through LessThan, counts are >= 0

(***************************************************************************)
(* Characters and strings.                                                 *)
(***************************************************************************)
DigitChars == <<"0", "1", "2", "3", "4", "5", "6", "7", "8", "9">>
UpperChars == <<"A", "B", "C", "D", "E", "F", "G", "H", "I", "J", "K", "L", "M",
                "N", "O", "P", "Q", "R", "S", "T", "U", "V", "W", "X", "Y", "Z">>
LowerChars == <<"a", "b", "c", "d", "e", "f", "g", "h", "i", "j", "k", "l", "m",
                "n", "o", "p", "q", "r", "s", "t", "u", "v", "w", "x", "y", "z">>
\* the characters of the model in code-point order
CodePoints == <<" ", "-">> \o DigitChars \o <<":">> \o UpperChars \o LowerChars

Range(s) == {s[i] : i \in DOMAIN s}
\* e, with v evaluated first: the value a loop carries from one iteration to
\* the next is computed at each iteration, not when the loop ends
Strict(v, e) == IF DOMAIN v = DOMAIN v THEN e ELSE e
IndexOf(c, s) == CHOOSE i \in DOMAIN s : s[i] = c
Ord(c) == IndexOf(c, CodePoints)
IsDigitChar(c) == c \in Range(DigitChars)
DigitVal(c) == IndexOf(c, DigitChars) - 1

\* str.upper()
UpperChar(c) == IF c \in Range(LowerChars) THEN UpperChars[IndexOf(c, LowerChars)] ELSE c
StrUpper(s) == [i \in DOMAIN s |-> UpperChar(s[i])]

\* str.strip()
RECURSIVE LStrip(_)
LStrip(s) == IF s # <<>> /\ Head(s) = " " THEN LStrip(Tail(s)) ELSE s
RECURSIVE RStrip(_)
RStrip(s) == IF s # <<>> /\ s[Len(s)] = " " THEN RStrip(SubSeq(s, 1, Len(s) - 1)) ELSE s
StrStrip(s) == RStrip(LStrip(s))

\* str.isdigit()
IsDigitStr(s) == s # <<>> /\ \A i \in DOMAIN s : IsDigitChar(s[i])

\* the value of a string of decimal digits
RECURSIVE DigitsVal(_)
DigitsVal(s) == IF s = <<>> THEN 0
                ELSE 10 * DigitsVal(SubSeq(s, 1, Len(s) - 1)) + DigitVal(s[Len(s)])

\* str(n) of an int
RECURSIVE NatToStr(_)
NatToStr(n) == IF n < 10 THEN <<DigitChars[n + 1]>>
               ELSE NatToStr(n \div 10) \o <<DigitChars[(n % 10) + 1]>>
IntToStr(n) == IF n < 0 THEN <<"-">> \o NatToStr(-n) ELSE NatToStr(n)

\* < on str
RECURSIVE StrLess(_, _)
StrLess(a, b) ==
    IF b = <<>> THEN FALSE
    ELSE IF a = <<>> THEN TRUE
    ELSE IF Head(a) # Head(b) THEN Ord(Head(a)) < Ord(Head(b))
    ELSE StrLess(Tail(a), Tail(b))

\* < on tuples of str
RECURSIVE StrTupleLess(_, _)
StrTupleLess(a, b) ==
    IF b = <<>> THEN FALSE
    ELSE IF a = <<>> THEN TRUE
    ELSE IF Head(a) # Head(b) THEN StrLess(Head(a), Head(b))
    ELSE StrTupleLess(Tail(a), Tail(b))

(***************************************************************************)
(* Helpers (lines 50-104).                                                 *)
(***************************************************************************)
to_minutes(hhmm) ==
    DigitsVal(SubSeq(hhmm, 1, 2)) * 60 + DigitsVal(SubSeq(hhmm, 4, Len(hhmm)))

\* the format spec 02d, for 0 <= n
Pad2(n) == IF n < 10 THEN <<"0">> \o NatToStr(n) ELSE NatToStr(n)
to_hhmm(m) == Pad2(m \div 60) \o <<":">> \o Pad2(m % 60)

Max(a, b) == IF a >= b THEN a ELSE b
Min(a, b) == IF a <= b THEN a ELSE b

\* overlaps with closed intervals: touching intervals count as overlapping
overlaps_closed(a, b) == Max(a[1], b[1]) <= Min(a[2], b[2])
overlaps(a, b) == Max(a[1], b[1]) < Min(a[2], b[2])

\* < on (start, end) tuples
PairLess(a, b) == a[1] < b[1] \/ (a[1] = b[1] /\ a[2] < b[2])

\* sorted(intvs): insertion of each element after the elements not greater
RECURSIVE InsertPair(_, _)
InsertPair(x, s) ==
    IF s = <<>> THEN <<x>>
    ELSE IF PairLess(x, Head(s)) THEN <<x>> \o s
    ELSE <<Head(s)>> \o InsertPair(x, Tail(s))
RECURSIVE SortedPairs(_)
SortedPairs(s) ==
    IF s = <<>> THEN <<>>
    ELSE InsertPair(s[Len(s)], SortedPairs(SubSeq(s, 1, Len(s) - 1)))

\* the body of merge's loop, for one (s, e)
MergeStep(merged, iv) ==
    IF merged = <<>> \/ iv[1] > merged[Len(merged)][2]
    THEN Append(merged, iv)
    ELSE [merged EXCEPT ![Len(merged)] =
             <<merged[Len(merged)][1], Max(merged[Len(merged)][2], iv[2])>>]
RECURSIVE MergeLoop(_, _)
MergeLoop(merged, s) ==
    IF s = <<>> THEN merged ELSE MergeLoop(MergeStep(merged, Head(s)), Tail(s))
merge(intvs) == MergeLoop(<<>>, SortedPairs(intvs))

LessThan(cnt, mincnt) == mincnt = Inf \/ cnt < mincnt

\* sum(1 for iv in day if overlaps(blk, iv)), for a list of tuples whose
\* first two components are start and end
RECURSIVE CountOverlaps(_, _)
CountOverlaps(blk, day) ==
    IF day = <<>> THEN 0
    ELSE (IF overlaps(blk, <<Head(day)[1], Head(day)[2]>>) THEN 1 ELSE 0)
         + CountOverlaps(blk, Tail(day))

\* range(GRID_START, GRID_END+1, STEP_MIN): its length and its k-th element, k >= 1
NumStarts == (GRID_END + 1 - GRID_START + STEP_MIN - 1) \div STEP_MIN
StartAt(k) == GRID_START + (k - 1) * STEP_MIN

\* the body of free_and_min_conflict's loop; acc = [free, best, mincnt]
FreeStep(acc, st, day) ==
    LET blk == <<st, st + BLOCK_LEN>>
        cnt == CountOverlaps(blk, day)
        free1 == IF cnt = 0 THEN Append(acc.free, blk) ELSE acc.free
    IN IF LessThan(cnt, acc.mincnt)
       THEN [free |-> free1, best |-> <<st>>, mincnt |-> cnt]
       ELSE IF cnt = acc.mincnt
       THEN [free |-> free1, best |-> Append(acc.best, st), mincnt |-> acc.mincnt]
       ELSE [free |-> free1, best |-> acc.best, mincnt |-> acc.mincnt]
\* the loop over the lo-th to the hi-th start, in order: the first half of
\* the iterations, then the second half on their result
RECURSIVE FreeLoop(_, _, _, _)
FreeLoop(acc, lo, hi, day) ==
    IF lo > hi THEN acc
    ELSE IF lo = hi THEN FreeStep(acc, StartAt(lo), day)
    ELSE LET mid == (lo + hi) \div 2
             left == FreeLoop(acc, lo, mid, day)
         IN Strict(left, FreeLoop(left, mid + 1, hi, day))
free_and_min_conflict(day) ==
    FreeLoop([free |-> <<>>, best |-> <<>>, mincnt |-> Inf], 1, NumStarts, day)

\* hits.sort(key=lambda x: x[1]): stable, by the second component
RECURSIVE InsertHit(_, _)
InsertHit(x, s) ==
    IF s = <<>> THEN <<x>>
    ELSE IF x[2] < Head(s)[2] THEN <<x>> \o s
    ELSE <<Head(s)>> \o InsertHit(x, Tail(s))
RECURSIVE SortedHits(_)
SortedHits(s) ==
    IF s = <<>> THEN <<>>
    ELSE InsertHit(s[Len(s)], SortedHits(SubSeq(s, 1, Len(s) - 1)))

RECURSIVE HitsLoop(_, _)
HitsLoop(blk, day_labeled) ==
    IF day_labeled = <<>> THEN <<>>
    ELSE LET x == Head(day_labeled)
         IN (IF overlaps(<<x[1], x[2]>>, blk) THEN <<(<<x[3], x[1], x[2]>>)>> ELSE <<>>)
            \o HitsLoop(blk, Tail(day_labeled))
offenders_for_start(st, day_labeled) ==
    SortedHits(HitsLoop(<<st, st + BLOCK_LEN>>, day_labeled))

\* the body of min_conflict_by_labels's loop; acc = [best, mincnt]
LabelStep(acc, st, day_labeled) ==
    LET cnt == CountOverlaps(<<st, st + BLOCK_LEN>>, day_labeled)
    IN IF LessThan(cnt, acc.mincnt) THEN [best |-> <<st>>, mincnt |-> cnt]
       ELSE IF cnt = acc.mincnt
       THEN [best |-> Append(acc.best, st), mincnt |-> acc.mincnt]
       ELSE acc
RECURSIVE LabelLoop(_, _, _, _)
LabelLoop(acc, lo, hi, day_labeled) ==
    IF lo > hi THEN acc
    ELSE IF lo = hi THEN LabelStep(acc, StartAt(lo), day_labeled)
    ELSE LET mid == (lo + hi) \div 2
             left == LabelLoop(acc, lo, mid, day_labeled)
         IN Strict(left, LabelLoop(left, mid + 1, hi, day_labeled))
min_conflict_by_labels(day_labeled) ==
    LabelLoop([best |-> <<>>, mincnt |-> Inf], 1, NumStarts, day_labeled)

(***************************************************************************)
(* Dicts: sequences of <<key, value>> items in insertion order.            *)
(***************************************************************************)
DictKeys(d) == {d[i][1] : i \in DOMAIN d}
DictHas(d, k) == k \in DictKeys(d)
DictGet(d, k) == d[CHOOSE i \in DOMAIN d : d[i][1] = k][2]
\* d[k] = v
DictPut(d, k, v) ==
    IF DictHas(d, k) THEN [i \in DOMAIN d |-> IF d[i][1] = k THEN <<k, v>> ELSE d[i]]
    ELSE Append(d, <<k, v>>)
\* del d[k]
RECURSIVE DictDel(_, _)
DictDel(d, k) ==
    IF d = <<>> THEN <<>>
    ELSE IF Head(d)[1] = k THEN Tail(d)
    ELSE <<Head(d)>> \o DictDel(Tail(d), k)
\* d.setdefault(k, []).append(x)
DictAppendTo(d, k, x) ==
    IF DictHas(d, k) THEN DictPut(d, k, Append(DictGet(d, k), x))
    ELSE Append(d, <<k, <<x>>>>)

(***************************************************************************)
(* The regular expressions (lines 39-42), as fullmatch on a string.        *)
(***************************************************************************)
CRS_RE(s) == Len(s) = 4 /\ \A i \in 1..4 : s[i] \in Range(UpperChars)
NUM_RE(s) ==
    /\ Len(s) \in {3, 4}
    /\ \A i \in 1..3 : IsDigitChar(s[i])
    /\ Len(s) = 4 => s[4] \in {"L", "l"}
TIME_RE(s) ==
    /\ Len(s) = 5
    /\ \/ s[1] = "2" /\ s[2] \in {"0", "1", "2", "3"}
       \/ s[1] = "1" /\ IsDigitChar(s[2])
       \/ s[1] = "0" /\ IsDigitChar(s[2])
    /\ s[3] = ":"
    /\ s[4] \in {"0", "1", "2", "3", "4", "5"}
    /\ IsDigitChar(s[5])
\* compiled with re.I
DAYS_RE(s) ==
    /\ Len(s) >= 1
    /\ \A i \in DOMAIN s : UpperChar(s[i]) \in {"M", "T", "W", "R", "F"}

(***************************************************************************)
(* rows_from_file (lines 107-131).  A cell of a text column is a string;   *)
(* a cell of the Duration column is an int, a string or NaN.               *)
(***************************************************************************)
IntCell(n) == [t |-> "int", n |-> n, s |-> <<>>]
StrCell(s) == [t |-> "str", n |-> 0, s |-> s]
NanCell == [t |-> "nan", n |-> 0, s |-> <<>>]

\* int(x): [ok |-> FALSE] stands for the ValueError it raises
PyInt(cell) ==
    IF cell.t = "int" THEN [ok |-> TRUE, v |-> cell.n]
    ELSE IF cell.t = "nan" THEN [ok |-> FALSE, v |-> 0]
    ELSE LET s == StrStrip(cell.s)
         IN IF IsDigitStr(s) THEN [ok |-> TRUE, v |-> DigitsVal(s)]
            ELSE IF s # <<>> /\ Head(s) = "-" /\ IsDigitStr(Tail(s))
            THEN [ok |-> TRUE, v |-> -DigitsVal(Tail(s))]
            ELSE [ok |-> FALSE, v |-> 0]

\* whether the tuple built for data-frame row r raises
RowRaises(r) == ~PyInt(r.Duration).ok
\* the tuple appended for data-frame row r
RowTuple(r) ==
    <<StrUpper(StrStrip(r.Subject)),
      StrStrip(r.Number),
      StrUpper(StrStrip(r.Days)),
      StrStrip(r.Start),
      StrStrip(IntToStr(PyInt(r.Duration).v))>>

(***************************************************************************)
(* add_section (lines 134-155): the value it returns, the error it prints  *)
(* when it returns False, and the dict after the call.                     *)
(***************************************************************************)
add_section(parts, secs) ==
    LET subj == parts[1]
        num == parts[2]
        days == StrUpper(parts[3])
        start == parts[4]
        dur == parts[5]
        code == subj \o <<" ">> \o num
    IN  IF ~CRS_RE(subj) \/ ~NUM_RE(num)
        THEN [ok |-> FALSE, err |-> "course code malformed (e.g. MEEN 221)", sections |-> secs]
        ELSE IF ~DAYS_RE(days)
        THEN [ok |-> FALSE, err |-> "days must be combo of MTWRF", sections |-> secs]
        ELSE IF ~TIME_RE(start)
        THEN [ok |-> FALSE, err |-> "start must be HH:MM 24-hour", sections |-> secs]
        ELSE IF ~IsDigitStr(dur) \/ DigitsVal(dur) <= 0
        THEN [ok |-> FALSE, err |-> "duration must be positive int", sections |-> secs]
        ELSE [ok |-> TRUE, err |-> "",
              sections |-> DictAppendTo(secs, code,
                               <<days, to_minutes(start), DigitsVal(dur), code>>)]

\* the loop `for row in rows: add_section(row, sections, echo=False)`
RECURSIVE AddAll(_, _)
AddAll(rs, secs) ==
    IF rs = <<>> THEN secs ELSE AddAll(Tail(rs), add_section(Head(rs), secs).sections)

(***************************************************************************)
(* Inputs.                                                                 *)
(***************************************************************************)
ABCD == <<"A", "B", "C", "D">>
WXYZ == <<"W", "X", "Y", "Z">>
MEEN == <<"M", "E", "E", "N">>
N101 == <<"1", "0", "1">>
N305 == <<"3", "0", "5">>
N221 == <<"2", "2", "1">>
T0800 == <<"0", "8", ":", "0", "0">>
T0940 == <<"0", "9", ":", "4", "0">>
T1400 == <<"1", "4", ":", "0", "0">>
T1610 == <<"1", "6", ":", "1", "0">>
D100 == <<"1", "0", "0">>
D500 == <<"5", "0", "0">>
D600 == <<"6", "0", "0">>

\* records that pass validation, as the five fields handed to add_section
ValidPool ==
    { <<ABCD, N101, <<"M">>, T0800, D100>>,
      <<WXYZ, N305, <<"M">>, T0800, D100>>,
      <<WXYZ, N305, <<"M">>, T1400, D100>>,
      <<MEEN, N221, <<"M">>, T1610, D100>>,
      <<MEEN, N221, <<"M", "T", "W", "R", "F">>, T0800, D600>>,
      <<ABCD, N101, <<"M", "M">>, T0800, D500>> }

\* rows of a spreadsheet, valid and faulty
RawRow(subj, num, days, start, dur) ==
    [Subject |-> subj, Number |-> num, Days |-> days, Start |-> start, Duration |-> dur]
RawPool ==
    { RawRow(MEEN, N221, <<"M", "W">>, T0940, IntCell(100)),
      RawRow(<<" ", "w", "x", "y", "z">>, N305, <<"t", "r">>, T1400, StrCell(<<"5", "0", " ">>)),
      RawRow(<<"a", "b">>, N221, <<"M", "W">>, T0940, IntCell(100)),
      RawRow(MEEN, N221, <<"M", "X">>, T0940, IntCell(100)),
      RawRow(MEEN, N221, <<"M", "W">>, <<"2", "5", ":", "0", "0">>, IntCell(100)),
      RawRow(MEEN, N221, <<"M", "W">>, T0940, IntCell(0)),
      RawRow(MEEN, N221, <<"M", "W">>, T0940, IntCell(-5)),
      RawRow(MEEN, N221, <<"M", "W">>, T0940, StrCell(<<"a", "b", "c">>)),
      RawRow(MEEN, N221, <<"M", "W">>, T0940, NanCell) }

SeqsUpTo(S, n) == UNION {[1..k -> S] : k \in 0..n}
\* the sequences of at most n elements of S, each element at most once
DistinctSeqsUpTo(S, n) ==
    {q \in SeqsUpTo(S, n) : \A i, j \in DOMAIN q : i # j => q[i] # q[j]}

EmptyGrid == [d \in Days |-> <<>>]
NoReport == [d \in Days |-> [kind |-> "none"]]

\* the variables main() has not assigned yet
Unassigned ==
    /\ mandatory = <<>> /\ options = <<>>
    /\ busy = EmptyGrid /\ busy_raw = EmptyGrid
    /\ chosen = <<>>
    /\ best_course = None /\ best_sec = None /\ best_score = -1 /\ tied = <<>>
    /\ pos = 1
    /\ free_any = FALSE /\ free_by_day = EmptyGrid
    /\ report = NoReport

(***************************************************************************)
(* The loader: main() lines 162-177 with rows_from_file.                   *)
(***************************************************************************)
LoadInit ==
    /\ pc = "read"
    /\ file \in SeqsUpTo(RawPool, MaxFileRows)
    /\ rows = <<>> /\ ri = 1 /\ errors = <<>> /\ sections = <<>>
    /\ Unassigned

\* one iteration of `for _, r in df.iterrows()`
ReadRow ==
    /\ pc = "read" /\ ri <= Len(file)
    /\ ~RowRaises(file[ri])
    /\ rows' = Append(rows, RowTuple(file[ri]))
    /\ ri' = ri + 1
    /\ UNCHANGED <<pc, file, errors, sections, mandatory, options, busy, busy_raw,
                   chosen, best_course, best_sec, best_score, tied, pos,
                   free_any, free_by_day, report>>

\* int(r["Duration"]) raises: main prints "[file-load error]" and returns
ReadRaise ==
    /\ pc = "read" /\ ri <= Len(file)
    /\ RowRaises(file[ri])
    /\ pc' = "file_load_error"
    /\ UNCHANGED <<file, rows, ri, errors, sections, mandatory, options, busy,
                   busy_raw, chosen, best_course, best_sec, best_score, tied, pos,
                   free_any, free_by_day, report>>

\* rows_from_file returns
ReadDone ==
    /\ pc = "read" /\ ri > Len(file)
    /\ pc' = "add" /\ ri' = 1
    /\ UNCHANGED <<file, rows, errors, sections, mandatory, options, busy,
                   busy_raw, chosen, best_course, best_sec, best_score, tied, pos,
                   free_any, free_by_day, report>>

\* one iteration of `for row in rows_from_file(...): add_section(row, ...)`
AddRow ==
    /\ pc = "add" /\ ri <= Len(rows)
    /\ LET r == add_section(rows[ri], sections)
       IN /\ sections' = r.sections
          /\ errors' = IF r.ok THEN errors ELSE Append(errors, <<ri, r.err>>)
    /\ ri' = ri + 1
    /\ UNCHANGED <<pc, file, rows, mandatory, options, busy, busy_raw,
                   chosen, best_course, best_sec, best_score, tied, pos,
                   free_any, free_by_day, report>>

\* "[spreadsheet] sections loaded successfully"
AddDone ==
    /\ pc = "add" /\ ri > Len(rows)
    /\ pc' = "loaded"
    /\ UNCHANGED <<file, rows, ri, errors, sections, mandatory, options, busy,
                   busy_raw, chosen, best_course, best_sec, best_score, tied, pos,
                   free_any, free_by_day, report>>

LoadNext == ReadRow \/ ReadRaise \/ ReadDone \/ AddRow \/ AddDone
LoadSpec == LoadInit /\ [][LoadNext]_vars

(***************************************************************************)
(* The scheduler: main() from line 190 on, started with the sections dict  *)
(* that add_section built from validated records.                          *)
(***************************************************************************)
Init ==
    /\ pc = "loaded"
    /\ file = <<>>
    /\ rows \in DistinctSeqsUpTo(ValidPool, MaxRows)
    /\ ri = Len(rows) + 1
    /\ errors = <<>>
    /\ sections = AddAll(rows, <<>>)
    /\ Unassigned

\* "No data entered; nothing to compute."
NoData ==
    /\ pc = "loaded" /\ sections = <<>>
    /\ pc' = "done"
    /\ UNCHANGED <<file, rows, ri, errors, sections, mandatory, options, busy,
                   busy_raw, chosen, best_course, best_sec, best_score, tied, pos,
                   free_any, free_by_day, report>>

\* {c: f(lst) for c, lst in d.items() if keep(lst)}, for lines 193 and 194
RECURSIVE MandatoryOf(_)
MandatoryOf(d) ==
    IF d = <<>> THEN <<>>
    ELSE (IF Len(Head(d)[2]) = 1 THEN <<(<<Head(d)[1], Head(d)[2][1]>>)>> ELSE <<>>)
         \o MandatoryOf(Tail(d))
\* line 194 with len(lst) > 2
RECURSIVE OptionsOf_Three(_)
OptionsOf_Three(d) ==
    IF d = <<>> THEN <<>>
    ELSE (IF Len(Head(d)[2]) > 2 THEN <<Head(d)>> ELSE <<>>) \o OptionsOf_Three(Tail(d))
RECURSIVE OptionsOf(_)
OptionsOf(d) ==
    IF d = <<>> THEN <<>>
    ELSE (IF Len(Head(d)[2]) > 1 THEN <<Head(d)>> ELSE <<>>) \o OptionsOf(Tail(d))

Partition ==
    /\ pc = "loaded" /\ sections # <<>>
    /\ mandatory' = MandatoryOf(sections)
    /\ options' = OptionsOf(sections)
    /\ pc' = "seed"
    /\ UNCHANGED <<file, rows, ri, errors, sections, busy, busy_raw, chosen,
                   best_course, best_sec, best_score, tied, pos,
                   free_any, free_by_day, report>>

\* for d in days: grid[d].append(x)
RECURSIVE AppendDays(_, _, _)
AppendDays(grid, days, x) ==
    IF days = <<>> THEN grid
    ELSE AppendDays([grid EXCEPT ![Head(days)] = Append(@, x)], Tail(days), x)

\* lines 199-202 and 231-235: one section's interval appended to both grids
\* the interval appended for the first letter of the day string only
AddToBusy_FirstDay(grid, sec) ==
    AppendDays(grid, SubSeq(sec[1], 1, 1), <<sec[2], sec[2] + sec[3]>>)
AddToBusy(grid, sec) == AppendDays(grid, sec[1], <<sec[2], sec[2] + sec[3]>>)
AddToBusyRaw(grid, sec) == AppendDays(grid, sec[1], <<sec[2], sec[2] + sec[3], sec[4]>>)

\* the grid left as it is, without the re-merge
MergeAll_None(grid) == grid
\* {d: merge(v) for d, v in busy.items()}
MergeAll(grid) == [d \in Days |-> merge(grid[d])]

RECURSIVE SeedBusy(_, _)
SeedBusy(grid, items) ==
    IF items = <<>> THEN grid ELSE SeedBusy(AddToBusy(grid, Head(items)[2]), Tail(items))
RECURSIVE SeedBusyRaw(_, _)
SeedBusyRaw(grid, items) ==
    IF items = <<>> THEN grid ELSE SeedBusyRaw(AddToBusyRaw(grid, Head(items)[2]), Tail(items))

Seed ==
    /\ pc = "seed"
    /\ busy' = MergeAll(SeedBusy(EmptyGrid, mandatory))
    /\ busy_raw' = SeedBusyRaw(EmptyGrid, mandatory)
    /\ chosen' = <<>>
    /\ pc' = "loop"
    /\ UNCHANGED <<file, rows, ri, errors, sections, mandatory, options,
                   best_course, best_sec, best_score, tied, pos,
                   free_any, free_by_day, report>>

\* for d in days: tmp[d].append(iv); tmp[d] = merge(tmp[d])
RECURSIVE AddMerged(_, _, _)
AddMerged(tmp, days, iv) ==
    IF days = <<>> THEN tmp
    ELSE AddMerged([tmp EXCEPT ![Head(days)] = merge(Append(@, iv))], Tail(days), iv)

\* sum(len(free_and_min_conflict(tmp[d])[0]) for d in DAY_LETTERS)
RECURSIVE SumFree(_, _)
SumFree(tmp, ds) ==
    IF ds = <<>> THEN 0
    ELSE Len(free_and_min_conflict(tmp[Head(ds)]).free) + SumFree(tmp, Tail(ds))

\* windows_after_add (lines 205-212): the score it returns, and its
\* argument `grid` as the call leaves it (tmp is a deep copy of it)
\* windows_after_add with tmp = grid instead of a deep copy: the loop writes
\* into the caller's grid
windows_after_add_nocopy(cand, grid) ==
    LET tmp == AddMerged(grid, cand[1], <<cand[2], cand[2] + cand[3]>>)
    IN [score |-> SumFree(tmp, DAY_LETTERS), grid |-> tmp]
\* windows_after_add scoring the grid without the candidate
windows_after_add_noadd(cand, grid) ==
    [score |-> SumFree(grid, DAY_LETTERS), grid |-> grid]
windows_after_add(cand, grid) ==
    LET tmp == AddMerged(grid, cand[1], <<cand[2], cand[2] + cand[3]>>)
    IN [score |-> SumFree(tmp, DAY_LETTERS), grid |-> grid]

\* the (course, cand) pairs in the order of the nested for-loops of lines 220-221
RECURSIVE PairUp(_, _)
PairUp(course, lst) ==
    IF lst = <<>> THEN <<>> ELSE <<(<<course, Head(lst)>>)>> \o PairUp(course, Tail(lst))
RECURSIVE Cands(_)
Cands(opts) ==
    IF opts = <<>> THEN <<>>
    ELSE PairUp(Head(opts)[1], Head(opts)[2]) \o Cands(Tail(opts))

\* lines 223-229: the loop's locals after a candidate with its score;
\* cur = [course, sec, score, tied]
\* lines 223-229 without the start-time comparison of line 228
Update_NoTieBreak(cur, course, cand, score) ==
    IF score > cur.score \/ cur.sec = None
    THEN [course |-> course, sec |-> cand, score |-> score,
          tied |-> <<(<<course, cand, score>>)>>]
    ELSE IF score = cur.score
    THEN [cur EXCEPT !.tied = Append(cur.tied, <<course, cand, score>>)]
    ELSE cur
Update(cur, course, cand, score) ==
    IF score > cur.score \/ cur.sec = None
    THEN [course |-> course, sec |-> cand, score |-> score,
          tied |-> <<(<<course, cand, score>>)>>]
    ELSE IF score = cur.score
    THEN IF cand[2] < cur.sec[2]
         THEN [course |-> course, sec |-> cand, score |-> cur.score,
               tied |-> Append(cur.tied, <<course, cand, score>>)]
         ELSE [cur EXCEPT !.tied = Append(cur.tied, <<course, cand, score>>)]
    ELSE cur

\* `while options:` entered, lines 216-219
BeginIter ==
    /\ pc = "loop" /\ options # <<>>
    /\ best_course' = None /\ best_sec' = None /\ best_score' = -1 /\ tied' = <<>>
    /\ pos' = 1
    /\ pc' = "score"
    /\ UNCHANGED <<file, rows, ri, errors, sections, mandatory, options, busy,
                   busy_raw, chosen, free_any, free_by_day, report>>

\* one iteration of the inner loop, lines 222-229
Score ==
    /\ pc = "score" /\ pos <= Len(Cands(options))
    /\ LET course == Cands(options)[pos][1]
           cand == Cands(options)[pos][2]
           cur == [course |-> best_course, sec |-> best_sec, score |-> best_score,
                   tied |-> tied]
       IN \E r \in {windows_after_add(cand, busy)} :
          \E new \in {Update(cur, course, cand, r.score)} :
             /\ busy' = r.grid
             /\ best_course' = new.course /\ best_sec' = new.sec
             /\ best_score' = new.score /\ tied' = new.tied
    /\ pos' = pos + 1
    /\ UNCHANGED <<pc, file, rows, ri, errors, sections, mandatory, options,
                   busy_raw, chosen, free_any, free_by_day, report>>

\* lines 230-237
Commit ==
    /\ pc = "score" /\ pos > Len(Cands(options))
    /\ chosen' = DictPut(chosen, best_course, best_sec)
    /\ busy' = MergeAll(AddToBusy(busy, best_sec))
    /\ busy_raw' = AddToBusyRaw(busy_raw, best_sec)
    /\ options' = DictDel(options, best_course)
    /\ pc' = "loop"
    /\ UNCHANGED <<file, rows, ri, errors, sections, mandatory,
                   best_course, best_sec, best_score, tied, pos,
                   free_any, free_by_day, report>>

\* `while options:` left, lines 239-245
Scan ==
    /\ pc = "loop" /\ options = <<>>
    /\ free_by_day' = [d \in Days |-> free_and_min_conflict(busy[d]).free]
    /\ free_any' = \E d \in Days : free_by_day'[d] # <<>>
    /\ pc' = "print"
    /\ UNCHANGED <<file, rows, ri, errors, sections, mandatory, options, busy,
                   busy_raw, chosen, best_course, best_sec, best_score, tied, pos,
                   report>>

(***************************************************************************)
(* The report, lines 247-286.  A weekday's entry of `report` is what is    *)
(* printed under its heading: nothing, the free windows, or the minimum    *)
(* conflict count with its groups.                                         *)
(***************************************************************************)
\* sorted(...) of a list of str
RECURSIVE InsertStr(_, _)
InsertStr(x, s) ==
    IF s = <<>> THEN <<x>>
    ELSE IF StrLess(x, Head(s)) THEN <<x>> \o s
    ELSE <<Head(s)>> \o InsertStr(x, Tail(s))
RECURSIVE SortedStrs(_)
SortedStrs(s) ==
    IF s = <<>> THEN <<>>
    ELSE InsertStr(s[Len(s)], SortedStrs(SubSeq(s, 1, Len(s) - 1)))

\* sorted(groups.keys()): the items of the dict in the order of their keys
RECURSIVE InsertGroup(_, _)
InsertGroup(x, s) ==
    IF s = <<>> THEN <<x>>
    ELSE IF StrTupleLess(x[1], Head(s)[1]) THEN <<x>> \o s
    ELSE <<Head(s)>> \o InsertGroup(x, Tail(s))
RECURSIVE SortedGroups(_)
SortedGroups(s) ==
    IF s = <<>> THEN <<>>
    ELSE InsertGroup(s[Len(s)], SortedGroups(SubSeq(s, 1, Len(s) - 1)))

\* sorted(set(starts))
SortedSet(S) ==
    LET ranked == {<<Cardinality({y \in S : y <= x}), x>> : x \in S}
    IN [i \in 1..Cardinality(S) |-> (CHOOSE p \in ranked : p[1] = i)[2]]

\* {code: (ss, ee, ee-ss) for code, ss, ee in hits}
RECURSIVE InfoOf(_, _)
InfoOf(info, hits) ==
    IF hits = <<>> THEN info
    ELSE LET h == Head(hits)
         IN InfoOf(DictPut(info, h[1], <<h[2], h[3], h[3] - h[2]>>), Tail(hits))

\* the body of the loop of lines 263-271
GroupStep(groups, s, mincnt, day_labeled) ==
    LET hits == offenders_for_start(s, day_labeled)
        codes == SortedStrs([i \in DOMAIN hits |-> hits[i][1]])
        g0 == IF DictHas(groups, codes) THEN groups
              ELSE Append(groups, <<codes, [starts |-> <<>>, info |-> InfoOf(<<>>, hits)]>>)
        data == DictGet(g0, codes)
    IN IF Len(hits) # mincnt THEN groups
       ELSE DictPut(g0, codes, [data EXCEPT !.starts = Append(@, s)])
\* the loop over best_starts[lo..hi], in order
RECURSIVE GroupLoop(_, _, _, _, _, _)
GroupLoop(groups, best_starts, lo, hi, mincnt, day_labeled) ==
    IF lo > hi THEN groups
    ELSE IF lo = hi THEN GroupStep(groups, best_starts[lo], mincnt, day_labeled)
    ELSE LET mid == (lo + hi) \div 2
             left == GroupLoop(groups, best_starts, lo, mid, mincnt, day_labeled)
         IN Strict(left, GroupLoop(left, best_starts, mid + 1, hi, mincnt, day_labeled))

\* what lines 274-286 print for one group: the class line(s) and the start times
GroupLines(item) ==
    LET codes == item[1]
        data == item[2]
    IN [codes |-> codes,
        classes |-> [i \in DOMAIN codes |->
                        <<codes[i], to_hhmm(DictGet(data.info, codes[i])[1]),
                          DictGet(data.info, codes[i])[3]>>],
        starts |-> LET srt == SortedSet(Range(data.starts))
                   IN [i \in DOMAIN srt |-> to_hhmm(srt[i])]]

\* lines 257-286 for one weekday
ConflictReport(d, day_labeled) ==
    LET r == min_conflict_by_labels(day_labeled)
        groups == SortedGroups(GroupLoop(<<>>, r.best, 1, Len(r.best), r.mincnt, day_labeled))
    IN IF r.best = <<>> THEN [kind |-> "none"]
       ELSE [kind |-> "conflict", heading |-> DAY_NAMES[d], mincnt |-> r.mincnt,
             groups |-> [i \in DOMAIN groups |-> GroupLines(groups[i])]]

\* lines 250-253 for one weekday
FreeReport(d, free) ==
    IF free # <<>>
    THEN [kind |-> "free", heading |-> DAY_NAMES[d],
          windows |-> [i \in DOMAIN free |-> <<to_hhmm(free[i][1]), to_hhmm(free[i][2])>>]]
    ELSE [kind |-> "none"]

\* the branch taken weekday by weekday
PrintReport_PerDay(any, free, raw) ==
    [d \in Days |-> IF free[d] # <<>> THEN FreeReport(d, free[d])
                    ELSE ConflictReport(d, raw[d])]
\* the branch of line 248
PrintReport(any, free, raw) ==
    IF any THEN [d \in Days |-> FreeReport(d, free[d])]
    ELSE [d \in Days |-> ConflictReport(d, raw[d])]

\* lines 248-253
PrintFree ==
    /\ pc = "print" /\ free_any
    /\ report' = PrintReport(free_any, free_by_day, busy_raw)
    /\ pc' = "done"
    /\ UNCHANGED <<file, rows, ri, errors, sections, mandatory, options, busy,
                   busy_raw, chosen, best_course, best_sec, best_score, tied, pos,
                   free_any, free_by_day>>

\* lines 254-286
PrintConflicts ==
    /\ pc = "print" /\ ~free_any
    /\ report' = PrintReport(free_any, free_by_day, busy_raw)
    /\ pc' = "done"
    /\ UNCHANGED <<file, rows, ri, errors, sections, mandatory, options, busy,
                   busy_raw, chosen, best_course, best_sec, best_score, tied, pos,
                   free_any, free_by_day>>

Next ==
    \/ NoData \/ Partition \/ Seed \/ BeginIter \/ Score \/ Commit \/ Scan
    \/ PrintFree \/ PrintConflicts
Spec == Init /\ [][Next]_vars

(***************************************************************************)
(* Properties.  The notions they use are stated on sets of intervals,      *)
(* independently of the loops above.                                       *)
(***************************************************************************)
\* half-open intervals a and b share a minute
Intersect(a, b) == a[1] < b[2] /\ b[1] < a[2]
AllStarts == {GRID_START + STEP_MIN * k : k \in 0..((GRID_END - GRID_START) \div STEP_MIN)}
Block(st) == <<st, st + BLOCK_LEN>>
IntervalOf(sec) == <<sec[2], sec[2] + sec[3]>>
\* the starts whose block meets none of the intervals of the set ivs
FreeStarts(ivs) == {st \in AllStarts : \A iv \in ivs : ~Intersect(Block(st), iv)}
\* the total number of free blocks of the week once cand is added to grid
WeekScore(cand, grid) ==
    LET on(d) == Range(grid[d]) \cup (IF d \in Range(cand[1]) THEN {IntervalOf(cand)} ELSE {})
        n == [d \in Days |-> Cardinality(FreeStarts(on(d)))]
    IN n["M"] + n["T"] + n["W"] + n["R"] + n["F"]
DictValues(d) == [i \in DOMAIN d |-> d[i][2]]
PairsOf(day_labeled) == [i \in DOMAIN day_labeled |-> <<day_labeled[i][1], day_labeled[i][2]>>]
Seeded == pc \in {"loop", "score", "print", "done"}

\* C1: the section a commit adds to `chosen` is one of the remaining
\* candidates, no remaining candidate of any course has a higher week score
\* on the current Busy Grid, and none with the same score starts earlier.
C1_GreedyPick ==
    [][(pc = "score" /\ pc' = "loop") =>
         LET cands == Cands(options)
             picked == chosen'[Len(chosen')]
             sc == [i \in DOMAIN cands |-> WeekScore(cands[i][2], busy)]
         IN \E i \in DOMAIN cands :
               /\ cands[i] = picked
               /\ \A j \in DOMAIN cands : sc[j] <= sc[i]
               /\ \A j \in DOMAIN cands : sc[j] = sc[i] => picked[2][2] <= cands[j][2][2]
      ]_vars
\* a commit whose section tied with a later-starting section of another course
C1_Witness ==
    /\ pc = "loop" /\ chosen # <<>>
    /\ chosen[Len(chosen)] = <<best_course, best_sec>>
    /\ \E i \in DOMAIN tied : tied[i][1] # best_course /\ tied[i][2][2] > best_sec[2]

\* C9: a scoring step changes neither the Busy Grid nor the Labeled Busy
\* Grid, and the best score after it is the larger of the best score before
\* it and the candidate's week score on that unchanged grid.
C9_ScoringReadOnly ==
    [][(pc = "score" /\ pc' = "score") =>
         /\ busy' = busy
         /\ busy_raw' = busy_raw
         /\ best_score' = Max(best_score, WeekScore(Cands(options)[pos][2], busy))
      ]_vars
\* the second candidate of an iteration has been scored on a non-empty grid
C9_Witness ==
    /\ pc = "score" /\ pos >= 3
    /\ \E d \in Days : busy[d] # <<>>

\* the labeled entries a list of committed sections puts on weekday d: one
\* per occurrence of d in a section's day string, in commit order
RECURSIVE LabeledOn(_, _)
LabeledOn(d, secs) ==
    IF secs = <<>> THEN <<>>
    ELSE LET sec == Head(secs)
             n == Cardinality({i \in DOMAIN sec[1] : sec[1][i] = d})
         IN [i \in 1..n |-> <<sec[2], sec[2] + sec[3], sec[4]>>] \o LabeledOn(d, Tail(secs))

\* C8: once seeded, each weekday's Busy Grid list is the merge of the
\* (start, end) pairs of that weekday's Labeled Busy Grid entries, and the
\* Labeled Busy Grid holds the interval of every mandatory and every committed
\* section on each weekday of its day string, in commit order.
C8_GridsInLockstep ==
    Seeded =>
        \A d \in Days :
            /\ busy[d] = merge(PairsOf(busy_raw[d]))
            /\ busy_raw[d] = LabeledOn(d, DictValues(mandatory) \o DictValues(chosen))
\* after a commit on top of mandatory sections, with intervals merged away
C8_Witness ==
    /\ pc = "loop" /\ chosen # <<>> /\ mandatory # <<>>
    /\ \E d \in Days : Len(busy[d]) < Len(busy_raw[d])

\* C10: once seeded, each weekday's Busy Grid list is strictly increasing in
\* start, its intervals are pairwise disjoint, and merge returns it unchanged.
C10_BusySortedDisjoint ==
    Seeded =>
        \A d \in Days :
            /\ \A i, j \in DOMAIN busy[d] :
                  i < j => /\ busy[d][i][1] < busy[d][j][1]
                           /\ ~Intersect(busy[d][i], busy[d][j])
            /\ merge(busy[d]) = busy[d]
\* after a commit, a weekday with two separate busy intervals
C10_Witness ==
    /\ pc = "loop" /\ chosen # <<>>
    /\ \E d \in Days : Len(busy[d]) >= 2

\* the sections of course c in the input
SectionsOf(c) == Range(DictGet(sections, c))
NoDuplicateKeys(d) == \A i, j \in DOMAIN d : d[i][1] = d[j][1] => i = j
SelectionDone ==
    /\ NoDuplicateKeys(chosen)
    /\ DictKeys(chosen) = {c \in DictKeys(sections) : Len(DictGet(sections, c)) > 1}
    /\ \A c \in DictKeys(chosen) : DictGet(chosen, c) \in SectionsOf(c)
    /\ DictKeys(chosen) \cap DictKeys(mandatory) = {}
    /\ DictKeys(chosen) \cup DictKeys(mandatory) = DictKeys(sections)

\* a measure of the work main() has left: its phase, and within the
\* selection loop a number that counts the remaining iterations
Phase ==
    CASE pc = "loaded" -> 5 [] pc = "seed" -> 4 [] pc \in {"loop", "score"} -> 3
      [] pc = "print" -> 2 [] pc = "done" -> 1
LoopWork ==
    LET whole == Len(options) * (Len(Cands(options)) + 3)
    IN IF pc = "loop" THEN whole
       ELSE IF pc = "score" THEN whole - 1 - pos
       ELSE 0

\* C2: the selection loop terminates: every step of main() lowers the pair
\* (Phase, LoopWork), which is bounded below; and once the loop has ended
\* `chosen` has exactly the courses with more than one section as keys, each
\* mapped to one of its own sections, and the keys of `chosen` and `mandatory`
\* are disjoint and together are all course codes.
C2_SelectionTerminates ==
    [][/\ LoopWork >= 0 /\ LoopWork' >= 0
       /\ Phase' < Phase \/ (Phase' = Phase /\ LoopWork' < LoopWork)
       /\ pc' \in {"print", "done"} => SelectionDone'
      ]_vars
\* the run has ended with a chosen section and a mandatory one
C2_Witness ==
    /\ pc = "done" /\ chosen # <<>> /\ mandatory # <<>>

\* weekday d has no free block on the final Busy Grid
NoFreeBlock(d) == FreeStarts(Range(busy[d])) = {}
\* the labeled entries of weekday d that meet the block at st
EntriesAt(d, st) == {i \in DOMAIN busy_raw[d] : Intersect(Block(st), PairsOf(busy_raw[d])[i])}
\* the courses of weekday d that meet the block at st
ClassesAt(d, st) == {busy_raw[d][i][3] : i \in EntriesAt(d, st)}
\* the least number of labeled entries a block of weekday d meets
MinEntries(d) ==
    CHOOSE n \in 0..Len(busy_raw[d]) :
        /\ \E st \in AllStarts : Cardinality(EntriesAt(d, st)) = n
        /\ \A st \in AllStarts : Cardinality(EntriesAt(d, st)) >= n
\* the least number of distinct courses a block of weekday d meets
MinClasses(d) ==
    CHOOSE n \in 0..Len(busy_raw[d]) :
        /\ \E st \in AllStarts : Cardinality(ClassesAt(d, st)) = n
        /\ \A st \in AllStarts : Cardinality(ClassesAt(d, st)) >= n
Finished == pc = "done" /\ sections # <<>>

\* the report of weekday d is a minimum-conflict report: the least number of
\* labeled entries met, and groups that between them list every start
\* reaching it exactly once, each group under the courses met at its starts
IsConflictReport(d) ==
    /\ report[d].kind = "conflict"
    /\ report[d].mincnt = MinEntries(d)
    /\ \A st \in AllStarts :
          LET listing == {g \in DOMAIN report[d].groups :
                             to_hhmm(st) \in Range(report[d].groups[g].starts)}
          IN IF Cardinality(EntriesAt(d, st)) = MinEntries(d)
             THEN /\ Cardinality(listing) = 1
                  /\ \A g \in listing :
                        /\ Range(report[d].groups[g].codes) = ClassesAt(d, st)
                        /\ \A c \in Range(report[d].groups[g].classes) :
                              \E i \in EntriesAt(d, st) :
                                  /\ c[1] = busy_raw[d][i][3]
                                  /\ c[2] = to_hhmm(busy_raw[d][i][1])
                                  /\ c[3] = busy_raw[d][i][2] - busy_raw[d][i][1]
             ELSE listing = {}

\* C3 as claimed: in the final report every weekday without a free block has
\* a minimum-conflict report, whatever the other weekdays have.
C3_ConflictReportPerDay ==
    Finished => \A d \in Days : NoFreeBlock(d) => IsConflictReport(d)

\* C3 as amended: when no weekday has a free block, every weekday has a
\* minimum-conflict report; when some weekday has one, the weekdays with free
\* blocks list them and a weekday without a free block has no report at all.
C3_ConflictReportOnlyIfNoDayFree ==
    Finished =>
        IF \A d \in Days : NoFreeBlock(d)
        THEN \A d \in Days : IsConflictReport(d)
        ELSE \A d \in Days :
                report[d].kind = (IF NoFreeBlock(d) THEN "none" ELSE "free")
\* a final report of minimum conflicts, with a block that meets two courses
C3_Witness ==
    /\ Finished
    /\ \A d \in Days : report[d].kind = "conflict"
    /\ \E d \in Days : Cardinality(ClassesAt(d, GRID_START)) >= 2

\* C5 as claimed: on every weekday min_conflict_by_labels returns the least
\* number of distinct classes a candidate block overlaps, and exactly the
\* starts that reach it.
C5_MinConflictCountsClasses ==
    (Seeded /\ sections # <<>>) =>
        \A d \in Days :
            LET r == min_conflict_by_labels(busy_raw[d])
            IN /\ r.mincnt = MinClasses(d)
               /\ Range(r.best) =
                     {st \in AllStarts : Cardinality(ClassesAt(d, st)) = MinClasses(d)}

\* scenario A: the only input record is ABCD 101 M 08:00 100
ScenarioA == <<(<<ABCD, N101, <<"M">>, T0800, D100>>)>>
H0800 == <<"0", "8", ":", "0", "0">>
H0940 == <<"0", "9", ":", "4", "0">>
H0945 == <<"0", "9", ":", "4", "5">>
H1120 == <<"1", "1", ":", "2", "0">>
H1125 == <<"1", "1", ":", "2", "5">>
H1610 == <<"1", "6", ":", "1", "0">>
H1750 == <<"1", "7", ":", "5", "0">>
\* the report of weekday d lists a window for every candidate start
AllStartsFree(d) ==
    /\ report[d].kind = "free"
    /\ Len(report[d].windows) = Cardinality(AllStarts)
    /\ report[d].windows[1] = <<H0800, H0940>>
    /\ report[d].windows[Len(report[d].windows)] = <<H1610, H1750>>
    /\ \A i, j \in DOMAIN report[d].windows :
          i # j => report[d].windows[i] # report[d].windows[j]
RestOfWeekFree == \A d \in {"T", "W", "R", "F"} : AllStartsFree(d)

\* C6 as claimed: in scenario A the first free window of the Monday report
\* is 09:45-11:25, and Tuesday to Friday list every candidate start.
C6_FirstWindow0945 ==
    (rows = ScenarioA /\ pc = "done") =>
        /\ report["M"].windows[1] = <<H0945, H1125>>
        /\ RestOfWeekFree

\* C6 as amended: in scenario A the first free window of the Monday report
\* is 09:40-11:20, 09:45-11:25 is the second, and Tuesday to Friday list every
\* candidate start.
C6_FirstWindow0940 ==
    (rows = ScenarioA /\ pc = "done") =>
        /\ report["M"].kind = "free"
        /\ report["M"].windows[1] = <<H0940, H1120>>
        /\ report["M"].windows[2] = <<H0945, H1125>>
        /\ RestOfWeekFree
\* scenario A has been reported
C6_Witness == rows = ScenarioA /\ pc = "done" /\ report["M"].kind = "free"

\* scenario B: the input records are the two sections of WXYZ 305, in
\* either order
Sec0800 == <<WXYZ, N305, <<"M">>, T0800, D100>>
Sec1400 == <<WXYZ, N305, <<"M">>, T1400, D100>>
ScenarioB == {<<Sec0800, Sec1400>>, <<Sec1400, Sec0800>>}
WXYZ305 == WXYZ \o <<" ">> \o N305
Chosen0800 == chosen = <<(<<WXYZ305, <<(<<"M">>), 480, 100, WXYZ305>>>>)>>

\* C7 as claimed: in scenario B both candidates have the same score, so that
\* both are on the list of tied candidates, and the 08:00 section is chosen.
C7_TieBrokenByStart ==
    (rows \in ScenarioB /\ pc = "done") =>
        /\ Chosen0800
        /\ Len(tied) = 2
        /\ tied[1][3] = tied[2][3]

\* C7 as amended: in scenario B the 08:00 section scores 475 free blocks and
\* the 14:00 section 456, so the 08:00 section alone holds the best score
\* and is chosen for its higher score, whichever comes first in the input.
C7_HigherScoreWins ==
    /\ (rows \in ScenarioB /\ pc = "score" /\ pos = 2) =>
          best_score = (IF rows[1] = Sec0800 THEN 475 ELSE 456)
    /\ (rows \in ScenarioB /\ pc = "score" /\ pos = 3) =>
          /\ best_score = 475
          /\ Len(tied) = 1
          /\ best_sec[2] = 480
    /\ (rows \in ScenarioB /\ pc = "done") => Chosen0800
\* scenario B has ended, with the 14:00 section scored first
C7_Witness == rows = <<Sec1400, Sec0800>> /\ pc = "done" /\ chosen # <<>>

\* a data-frame row has one of the validation faults
RowFaulty(r) ==
    \/ ~CRS_RE(StrUpper(StrStrip(r.Subject)))
    \/ ~NUM_RE(StrStrip(r.Number))
    \/ ~DAYS_RE(StrStrip(r.Days))
    \/ ~TIME_RE(StrStrip(r.Start))
    \/ ~(PyInt(r.Duration).ok /\ PyInt(r.Duration).v > 0)
RECURSIVE CountSections(_)
CountSections(d) == IF d = <<>> THEN 0 ELSE Len(Head(d)[2]) + CountSections(Tail(d))

\* C4 as claimed: when the load of a spreadsheet has ended, it has ended
\* normally, every faulty row has been reported and skipped, and every other
\* row has been added.
C4_BadRowNeverAborts ==
    pc \in {"loaded", "file_load_error"} =>
        /\ pc = "loaded"
        /\ {errors[i][1] : i \in DOMAIN errors} = {i \in DOMAIN file : RowFaulty(file[i])}
        /\ CountSections(sections) = Cardinality({i \in DOMAIN file : ~RowFaulty(file[i])})

=============================================================================
